---- MODULE Spec2Model ----
(***************************************************************************)
(* The scalar compute facade of arrow/compute/api_scalar.cc: every public  *)
(* entry point resolves a registry operation name, validates where the     *)
(* operation is a set lookup, and forwards name, arguments and options to  *)
(* CallFunction.  A call is synchronous: one action is one whole call; the *)
(* caller then takes the Result and the layer is idle again.               *)
(***************************************************************************)
EXTENDS Integers, Sequences, FiniteSets

VARIABLES pc, entry, args, options, ctx, invocations, outcome

vars == <<pc, entry, args, options, ctx, invocations, outcome>>

(* ------------------------------ bounds --------------------------------- *)

\* Largest length of an Array or ChunkedArray Datum.
MaxLen == 1

\* Largest number of Datums handed to ElementWiseMax / ElementWiseMin.
MaxArgs == 2

(* ---------------------------- logical types ---------------------------- *)

Primitive(name) == [id |-> name]

DictionaryOf(index, value) ==
    [id |-> "dictionary", index_type |-> index, value_type |-> value]

PrimitiveTypes == {Primitive("int8"), Primitive("string")}

DictionaryTypes ==
    {DictionaryOf(Primitive("int8"), Primitive("string")),
     DictionaryOf(Primitive("int8"), Primitive("int8"))}

Types == PrimitiveTypes \cup DictionaryTypes

\* DataType::Equals: same type id, and for dictionaries the same index and
\* value types.
RECURSIVE Equals(_, _)
Equals(a, b) ==
    /\ a.id = b.id
    /\ a.id = "dictionary" =>
          /\ Equals(a.index_type, b.index_type)
          /\ Equals(a.value_type, b.value_type)

\* DataType::ToString, as the sequence of text fragments it writes.
RECURSIVE ToString(_)
ToString(t) ==
    IF t.id = "dictionary"
    THEN <<"dictionary<values=">> \o ToString(t.value_type)
            \o <<", indices=">> \o ToString(t.index_type)
            \o <<", ordered=0>">>
    ELSE <<t.id>>

(* -------------------------------- Datum -------------------------------- *)

\* Datum::type() of a Datum that holds no typed value.
NullType == [id |-> "null_pointer"]

\* Datum::kUnknownLength
kUnknownLength == -1

Lengths == 0 .. MaxLen

ScalarDatums == {[kind |-> "SCALAR", type |-> t, length |-> 1] : t \in Types}

ArrayDatums == {[kind |-> "ARRAY", type |-> t, length |-> n] : t \in Types, n \in Lengths}

ChunkedArrayDatums ==
    {[kind |-> "CHUNKED_ARRAY", type |-> t, length |-> n] : t \in Types, n \in Lengths}

TableDatums == {[kind |-> "TABLE", type |-> NullType, length |-> kUnknownLength]}

\* The Datums that carry a logical type.
Values == ScalarDatums \cup ArrayDatums \cup ChunkedArrayDatums

\* Every Datum a caller can pass, as an argument or as a value set.
Datums == Values \cup TableDatums

is_arraylike(d) == d.kind \in {"ARRAY", "CHUNKED_ARRAY"}

(* ------------------------------- Result -------------------------------- *)

NoDatum == [kind |-> "NONE", type |-> NullType, length |-> kUnknownLength]

Ok(d) == [code |-> "OK", message |-> <<>>, value |-> d]

StatusInvalid(msg) == [code |-> "Invalid", message |-> msg, value |-> NoDatum]

\* What the registry can answer to one call: no kernel under that name, a
\* kernel that fails, or a kernel that produces a Datum.
NotFound == [code |-> "KeyError", message |-> <<"No function registered">>, value |-> NoDatum]

ExecutionError == [code |-> "ExecutionError", message |-> <<"kernel failed">>, value |-> NoDatum]

KernelResults ==
    {[kind |-> "ARRAY", type |-> Primitive("bool"), length |-> 1],
     [kind |-> "SCALAR", type |-> Primitive("int8"), length |-> 1]}

\* The execution context of a call, as the answer its registry gives.
Contexts == {NotFound, ExecutionError} \cup {Ok(d) : d \in KernelResults}

(* ------------------------------- options ------------------------------- *)

\* The options pointer CallFunction receives when the caller passes none.
NoOptions == [type |-> "nullptr"]

ArithmeticOptions(check) == [type |-> "ArithmeticOptions", check_overflow |-> check]

ElementWiseAggregateOptions(skip) ==
    [type |-> "ElementWiseAggregateOptions", skip_nulls |-> skip]

\* SetLookupOptions(Datum value_set, bool skip_nulls = false)
SetLookupOptions(value_set, skip) ==
    [type |-> "SetLookupOptions", value_set |-> value_set, skip_nulls |-> skip]

SetLookupOptionsDefault(value_set) == SetLookupOptions(value_set, FALSE)

CompareOperator ==
    {"EQUAL", "NOT_EQUAL", "GREATER", "GREATER_EQUAL", "LESS", "LESS_EQUAL"}

CompareOptions(op) == [type |-> "CompareOptions", op |-> op]

(* ----------------------------- the registry ---------------------------- *)

\* CallFunction(name, args, options, ctx): one registry invocation, whose
\* answer is the call's Result.
CallFunction(func_name, call_args, call_options, call_ctx) ==
    [invocations |-> <<[name |-> func_name, args |-> call_args, options |-> call_options]>>,
     outcome |-> call_ctx]

\* A return that reaches no CallFunction.
ReturnStatus(status) == [invocations |-> <<>>, outcome |-> status]

(* ------------------------- forwarding wrappers ------------------------- *)

SCALAR_EAGER_UNARY(REGISTRY_NAME, value, c) ==
    CallFunction(REGISTRY_NAME, <<value>>, NoOptions, c)

SCALAR_EAGER_BINARY(REGISTRY_NAME, left, right, c) ==
    CallFunction(REGISTRY_NAME, <<left, right>>, NoOptions, c)

\* The instantiations of SCALAR_EAGER_UNARY: <<NAME, REGISTRY_NAME>>.
EagerUnaryFunctions ==
    {<<"Invert", "invert">>,
     <<"IsValid", "is_valid">>, <<"IsNull", "is_null">>, <<"IsNan", "is_nan">>,
     <<"Year", "year">>, <<"Month", "month">>, <<"Day", "day">>,
     <<"DayOfWeek", "day_of_week">>, <<"DayOfYear", "day_of_year">>,
     <<"ISOYear", "iso_year">>, <<"ISOWeek", "iso_week">>,
     <<"ISOCalendar", "iso_calendar">>, <<"Quarter", "quarter">>,
     <<"Hour", "hour">>, <<"Minute", "minute">>, <<"Second", "second">>,
     <<"Millisecond", "millisecond">>, <<"Microsecond", "microsecond">>,
     <<"Nanosecond", "nanosecond">>, <<"Subsecond", "subsecond">>}

\* The instantiations of SCALAR_EAGER_BINARY: <<NAME, REGISTRY_NAME>>.
EagerBinaryFunctions ==
    {<<"And", "and">>, <<"KleeneAnd", "and_kleene">>, <<"Or", "or">>,
     <<"KleeneOr", "or_kleene">>, <<"Xor", "xor">>, <<"AndNot", "and_not">>,
     <<"KleeneAndNot", "and_not_kleene">>}

FillNull(values, fill_value, c) ==
    CallFunction("fill_null", <<values, fill_value>>, NoOptions, c)

IfElse(cond, if_true, if_false, c) ==
    CallFunction("if_else", <<cond, if_true, if_false>>, NoOptions, c)

(* ------------------------------ arithmetic ----------------------------- *)

SCALAR_ARITHMETIC_UNARY(REGISTRY_NAME, REGISTRY_CHECKED_NAME, arg, opts, c) ==
    LET func_name == IF opts.check_overflow THEN REGISTRY_CHECKED_NAME ELSE REGISTRY_NAME
    IN  CallFunction(func_name, <<arg>>, NoOptions, c)

\* Variant: the two names of the conditional exchanged.
SCALAR_ARITHMETIC_BINARY_Swapped(REGISTRY_NAME, REGISTRY_CHECKED_NAME, left, right, opts, c) ==
    LET func_name == IF opts.check_overflow THEN REGISTRY_NAME ELSE REGISTRY_CHECKED_NAME
    IN  CallFunction(func_name, <<left, right>>, NoOptions, c)

SCALAR_ARITHMETIC_BINARY(REGISTRY_NAME, REGISTRY_CHECKED_NAME, left, right, opts, c) ==
    LET func_name == IF opts.check_overflow THEN REGISTRY_CHECKED_NAME ELSE REGISTRY_NAME
    IN  CallFunction(func_name, <<left, right>>, NoOptions, c)

\* The instantiations: <<NAME, REGISTRY_NAME, REGISTRY_CHECKED_NAME>>.
ArithmeticUnaryFunctions ==
    {<<"AbsoluteValue", "abs", "abs_checked">>,
     <<"Negate", "negate", "negate_checked">>}

ArithmeticBinaryFunctions ==
    {<<"Add", "add", "add_checked">>,
     <<"Subtract", "subtract", "subtract_checked">>,
     <<"Multiply", "multiply", "multiply_checked">>,
     <<"Divide", "divide", "divide_checked">>,
     <<"Power", "power", "power_checked">>}

\* Variant: the options left out of the call, as the arithmetic wrappers do.
ElementWiseMax_WithoutOptions(call_args, opts, c) ==
    CallFunction("element_wise_max", call_args, NoOptions, c)

ElementWiseMax(call_args, opts, c) ==
    CallFunction("element_wise_max", call_args, opts, c)

ElementWiseMin(call_args, opts, c) ==
    CallFunction("element_wise_min", call_args, opts, c)

(* ------------------------ set-related operations ----------------------- *)

\* The process killed by a signal inside the call: no Result is returned.
Killed ==
    [invocations |-> <<>>,
     outcome |-> [code |-> "SIGSEGV", message |-> <<>>, value |-> NoDatum]]

\* Lines 92-98: the type check against the value set, then the delegation.
TypeCheckAndCall(func_name, data, data_type, opts, c) ==
    IF opts.value_set.length > 0 /\ ~Equals(data_type, opts.value_set.type)
    THEN ReturnStatus(StatusInvalid(
             <<"Array type didn't match type of values set: ">>
                \o ToString(data_type) \o <<" vs ">>
                \o ToString(opts.value_set.type)))
    ELSE CallFunction(func_name, <<data>>, opts, c)

\* Line 85 on a Datum without a type: data.type() is a null pointer and
\* data.type()->id() is undefined.  The process is killed, or the function
\* goes on with an indeterminate data_type.
NullDereference(func_name, data, opts, c) ==
    {Killed} \cup {TypeCheckAndCall(func_name, data, t, opts, c) : t \in Types}

\* Lines 84-90 on a Datum with a type.
DataType(data) ==
    IF data.type.id = "dictionary" THEN data.type.value_type ELSE data.type

\* Variants of ExecSetLookup, each one slip away from it.

\* The type check left out.
ExecSetLookup_NoTypeCheck(func_name, data, opts, c) ==
    IF ~is_arraylike(opts.value_set)
    THEN {ReturnStatus(StatusInvalid(<<"Set lookup value set must be Array or ChunkedArray">>))}
    ELSE IF data.type = NullType
         THEN NullDereference(func_name, data, opts, c)
         ELSE {CallFunction(func_name, <<data>>, opts, c)}

\* The type check made for an empty value set too.
ExecSetLookup_CheckEmpty(func_name, data, opts, c) ==
    IF ~is_arraylike(opts.value_set)
    THEN {ReturnStatus(StatusInvalid(<<"Set lookup value set must be Array or ChunkedArray">>))}
    ELSE IF data.type = NullType
         THEN NullDereference(func_name, data, opts, c)
         ELSE IF ~Equals(DataType(data), opts.value_set.type)
              THEN {ReturnStatus(StatusInvalid(
                       <<"Array type didn't match type of values set: ">>
                          \o ToString(DataType(data)) \o <<" vs ">>
                          \o ToString(opts.value_set.type)))}
              ELSE {CallFunction(func_name, <<data>>, opts, c)}

\* A Dictionary probe compared by its index type.
ExecSetLookup_IndexType(func_name, data, opts, c) ==
    IF ~is_arraylike(opts.value_set)
    THEN {ReturnStatus(StatusInvalid(<<"Set lookup value set must be Array or ChunkedArray">>))}
    ELSE IF data.type = NullType
         THEN NullDereference(func_name, data, opts, c)
         ELSE LET data_type == IF data.type.id = "dictionary"
                               THEN data.type.index_type
                               ELSE data.type
              IN  {TypeCheckAndCall(func_name, data, data_type, opts, c)}

\* The array-like check left out.
ExecSetLookup_NoArrayLikeCheck(func_name, data, opts, c) ==
    IF data.type = NullType
    THEN NullDereference(func_name, data, opts, c)
    ELSE {TypeCheckAndCall(func_name, data, DataType(data), opts, c)}

\* A failure of the registry reported as Invalid.
ExecSetLookup_Rewrapped(func_name, data, opts, c) ==
    IF ~is_arraylike(opts.value_set)
    THEN {ReturnStatus(StatusInvalid(<<"Set lookup value set must be Array or ChunkedArray">>))}
    ELSE IF data.type = NullType
         THEN NullDereference(func_name, data, opts, c)
         ELSE LET r == TypeCheckAndCall(func_name, data, DataType(data), opts, c)
              IN  IF r.invocations = <<>> \/ r.outcome.code = "OK"
                  THEN {r}
                  ELSE {[r EXCEPT !.outcome = StatusInvalid(<<"Set lookup failed">>)]}

\* ExecSetLookup: the outcomes one call can have.  A call has one outcome
\* except where its behaviour is undefined.
ExecSetLookup(func_name, data, opts, c) ==
    IF ~is_arraylike(opts.value_set)
    THEN {ReturnStatus(StatusInvalid(<<"Set lookup value set must be Array or ChunkedArray">>))}
    ELSE IF data.type = NullType
         THEN NullDereference(func_name, data, opts, c)
         ELSE {TypeCheckAndCall(func_name, data, DataType(data), opts, c)}

IsIn(values, opts, c) == ExecSetLookup("is_in", values, opts, c)

\* Variant: the Options record built with skip_nulls set.
IsInValueSet_SkipNulls(values, value_set, c) ==
    ExecSetLookup("is_in", values, SetLookupOptions(value_set, TRUE), c)

IsInValueSet(values, value_set, c) ==
    ExecSetLookup("is_in", values, SetLookupOptionsDefault(value_set), c)

IndexIn(values, opts, c) == ExecSetLookup("index_in", values, opts, c)

IndexInValueSet(values, value_set, c) ==
    ExecSetLookup("index_in", values, SetLookupOptionsDefault(value_set), c)

(* ------------------------------ comparison ----------------------------- *)

\* Variant: the LESS_EQUAL case assigning the name of LESS.
CompareFuncName_Repeated(op) ==
    CASE op = "EQUAL" -> "equal"
      [] op = "NOT_EQUAL" -> "not_equal"
      [] op = "GREATER" -> "greater"
      [] op = "GREATER_EQUAL" -> "greater_equal"
      [] op = "LESS" -> "less"
      [] op = "LESS_EQUAL" -> "less"
      [] OTHER -> ""

\* The switch of Compare; func_name starts as the empty string.
CompareFuncName(op) ==
    CASE op = "EQUAL" -> "equal"
      [] op = "NOT_EQUAL" -> "not_equal"
      [] op = "GREATER" -> "greater"
      [] op = "GREATER_EQUAL" -> "greater_equal"
      [] op = "LESS" -> "less"
      [] op = "LESS_EQUAL" -> "less_equal"
      [] OTHER -> ""

Compare(left, right, opts, c) ==
    CallFunction(CompareFuncName(opts.op), <<left, right>>, opts, c)

(* ------------------------------- actions ------------------------------- *)

\* Argument lists of ElementWiseMax / ElementWiseMin.
ArgLists == UNION {[1 .. n -> Datums] : n \in 0 .. MaxArgs}

\* One whole call of entry point `name`: the caller's inputs and what the
\* call did (`r`: the registry invocations made and the Result returned).
\* A call starts when the layer is idle; a call that kills the process
\* returns nothing and nothing follows it.
Call(name, a, o, c, r) ==
    /\ pc' = IF r = Killed THEN "crashed" ELSE "returned"
    /\ entry' = name
    /\ args' = a
    /\ options' = o
    /\ ctx' = c
    /\ invocations' = r.invocations
    /\ outcome' = r.outcome

ScalarEagerUnaryCall ==
    /\ pc = "idle"
    /\ \E f \in EagerUnaryFunctions, value \in Datums, c \in Contexts :
           Call(f[1], <<value>>, NoOptions, c, SCALAR_EAGER_UNARY(f[2], value, c))

ScalarEagerBinaryCall ==
    /\ pc = "idle"
    /\ \E f \in EagerBinaryFunctions, left \in Datums, right \in Datums, c \in Contexts :
           Call(f[1], <<left, right>>, NoOptions, c, SCALAR_EAGER_BINARY(f[2], left, right, c))

FillNullCall ==
    /\ pc = "idle"
    /\ \E values \in Datums, fill_value \in Datums, c \in Contexts :
           Call("FillNull", <<values, fill_value>>, NoOptions, c, FillNull(values, fill_value, c))

IfElseCall ==
    /\ pc = "idle"
    /\ \E cond \in Datums, if_true \in Datums, if_false \in Datums, c \in Contexts :
           Call("IfElse", <<cond, if_true, if_false>>, NoOptions, c,
                IfElse(cond, if_true, if_false, c))

ScalarArithmeticUnaryCall ==
    /\ pc = "idle"
    /\ \E f \in ArithmeticUnaryFunctions, arg \in Datums, check \in BOOLEAN, c \in Contexts :
           Call(f[1], <<arg>>, ArithmeticOptions(check), c,
                SCALAR_ARITHMETIC_UNARY(f[2], f[3], arg, ArithmeticOptions(check), c))

ScalarArithmeticBinaryCall ==
    /\ pc = "idle"
    /\ \E f \in ArithmeticBinaryFunctions, left \in Datums, right \in Datums,
          check \in BOOLEAN, c \in Contexts :
           Call(f[1], <<left, right>>, ArithmeticOptions(check), c,
                SCALAR_ARITHMETIC_BINARY(f[2], f[3], left, right, ArithmeticOptions(check), c))

ElementWiseMaxCall ==
    /\ pc = "idle"
    /\ \E a \in ArgLists, skip \in BOOLEAN, c \in Contexts :
           Call("ElementWiseMax", a, ElementWiseAggregateOptions(skip), c,
                ElementWiseMax(a, ElementWiseAggregateOptions(skip), c))

ElementWiseMinCall ==
    /\ pc = "idle"
    /\ \E a \in ArgLists, skip \in BOOLEAN, c \in Contexts :
           Call("ElementWiseMin", a, ElementWiseAggregateOptions(skip), c,
                ElementWiseMin(a, ElementWiseAggregateOptions(skip), c))

IsInCall ==
    /\ pc = "idle"
    /\ \E values \in Datums, value_set \in Datums, skip \in BOOLEAN, c \in Contexts :
           \E r \in IsIn(values, SetLookupOptions(value_set, skip), c) :
               Call("IsIn", <<values>>, SetLookupOptions(value_set, skip), c, r)

IsInValueSetCall ==
    /\ pc = "idle"
    /\ \E values \in Datums, value_set \in Datums, c \in Contexts :
           \E r \in IsInValueSet(values, value_set, c) :
               Call("IsInValueSet", <<values, value_set>>, NoOptions, c, r)

IndexInCall ==
    /\ pc = "idle"
    /\ \E values \in Datums, value_set \in Datums, skip \in BOOLEAN, c \in Contexts :
           \E r \in IndexIn(values, SetLookupOptions(value_set, skip), c) :
               Call("IndexIn", <<values>>, SetLookupOptions(value_set, skip), c, r)

IndexInValueSetCall ==
    /\ pc = "idle"
    /\ \E values \in Datums, value_set \in Datums, c \in Contexts :
           \E r \in IndexInValueSet(values, value_set, c) :
               Call("IndexInValueSet", <<values, value_set>>, NoOptions, c, r)

CompareCall ==
    /\ pc = "idle"
    /\ \E left \in Datums, right \in Datums, op \in CompareOperator, c \in Contexts :
           Call("Compare", <<left, right>>, CompareOptions(op), c,
                Compare(left, right, CompareOptions(op), c))

\* The caller takes the Result; no state of the call is retained.
Return ==
    /\ pc = "returned"
    /\ pc' = "idle"
    /\ entry' = "none"
    /\ args' = <<>>
    /\ options' = NoOptions
    /\ ctx' = NotFound
    /\ invocations' = <<>>
    /\ outcome' = Ok(NoDatum)

Init ==
    /\ pc = "idle"
    /\ entry = "none"
    /\ args = <<>>
    /\ options = NoOptions
    /\ ctx = NotFound
    /\ invocations = <<>>
    /\ outcome = Ok(NoDatum)

Next ==
    \/ ScalarEagerUnaryCall
    \/ ScalarEagerBinaryCall
    \/ FillNullCall
    \/ IfElseCall
    \/ ScalarArithmeticUnaryCall
    \/ ScalarArithmeticBinaryCall
    \/ ElementWiseMaxCall
    \/ ElementWiseMinCall
    \/ IsInCall
    \/ IsInValueSetCall
    \/ IndexInCall
    \/ IndexInValueSetCall
    \/ CompareCall
    \/ Return

Spec == Init /\ [][Next]_vars

(* ======================= properties of the facade ====================== *)

Returned == pc = "returned"

\* The call is over: it returned a Result, or the process was killed in it.
Ended == pc \in {"returned", "crashed"}

Delegated == Returned /\ Len(invocations) >= 1

ArithmeticEntryPoints ==
    {"AbsoluteValue", "Negate", "Add", "Subtract", "Multiply", "Divide", "Power"}

SetLookupEntryPoints == {"IsIn", "IsInValueSet", "IndexIn", "IndexInValueSet"}

\* The probe and the value set of the set lookup just made.
Probe == args[1]

ValueSet == IF entry \in {"IsIn", "IndexIn"} THEN options.value_set ELSE args[2]

SetLookupEnded == Ended /\ entry \in SetLookupEntryPoints

\* The probe is a scalar, an array or a chunked array: it has a type.
TypedProbe == Probe.type \in Types

\* The type a set lookup is to compare: the probe's own type, or the decoded
\* value type of a Dictionary-typed probe.
ComparisonType(d) == IF d.type \in DictionaryTypes THEN d.type.value_type ELSE d.type

\* The registry name a set lookup is to delegate to.
SetLookupName(e) == IF e \in {"IsIn", "IsInValueSet"} THEN "is_in" ELSE "index_in"

\* The text `frag` occurs in the message `msg`.
Contains(msg, frag) ==
    \E i \in 1 .. Len(msg) :
        /\ i + Len(frag) - 1 <= Len(msg)
        /\ SubSeq(msg, i, i + Len(frag) - 1) = frag

RejectedByValidator == outcome.code = "Invalid" /\ invocations = <<>>

(* ---- C1 ---- *)

BaseName(e) ==
    CASE e = "AbsoluteValue" -> "abs"
      [] e = "Negate" -> "negate"
      [] e = "Add" -> "add"
      [] e = "Subtract" -> "subtract"
      [] e = "Multiply" -> "multiply"
      [] e = "Divide" -> "divide"
      [] e = "Power" -> "power"

CheckedName(e) ==
    CASE e = "AbsoluteValue" -> "abs_checked"
      [] e = "Negate" -> "negate_checked"
      [] e = "Add" -> "add_checked"
      [] e = "Subtract" -> "subtract_checked"
      [] e = "Multiply" -> "multiply_checked"
      [] e = "Divide" -> "divide_checked"
      [] e = "Power" -> "power_checked"

\* C1: each of the seven arithmetic entry points hands the registry its own
\* '_checked' name if and only if options.check_overflow is true, and its
\* own base name otherwise; never the name of another operation.
C1_CheckedNameIffCheckOverflow ==
    (Returned /\ entry \in ArithmeticEntryPoints) =>
        /\ Len(invocations) = 1
        /\ invocations[1].name = CheckedName(entry) <=> options.check_overflow
        /\ invocations[1].name = BaseName(entry) <=> ~options.check_overflow
        /\ invocations[1].name \in {BaseName(entry), CheckedName(entry)}

C1_Witness ==
    /\ Returned
    /\ entry = "Power"
    /\ options.check_overflow
    /\ invocations[1].name = "power_checked"

(* ---- C2 ---- *)

CanonicalName(op) ==
    CASE op = "EQUAL" -> "equal"
      [] op = "NOT_EQUAL" -> "not_equal"
      [] op = "GREATER" -> "greater"
      [] op = "GREATER_EQUAL" -> "greater_equal"
      [] op = "LESS" -> "less"
      [] op = "LESS_EQUAL" -> "less_equal"

CanonicalNames ==
    {"equal", "not_equal", "greater", "greater_equal", "less", "less_equal"}

\* C2: the name Compare resolves from CompareOptions.op is a total bijection
\* from the six operators onto the six canonical names, each operator going
\* to its like-named operation; none resolves to the empty name, no two to
\* the same name, and that is the name Compare hands the registry.
C2_CompareNameBijection ==
    /\ \A op \in CompareOperator :
           CompareFuncName(op) # "" /\ CompareFuncName(op) = CanonicalName(op)
    /\ \A a, b \in CompareOperator :
           a # b => CompareFuncName(a) # CompareFuncName(b)
    /\ {CompareFuncName(op) : op \in CompareOperator} = CanonicalNames
    /\ (Returned /\ entry = "Compare") =>
           /\ Len(invocations) = 1
           /\ invocations[1].name = CanonicalName(options.op)

C2_Witness ==
    /\ Returned
    /\ entry = "Compare"
    /\ options.op = "LESS_EQUAL"
    /\ invocations[1].name = "less_equal"

(* ---- C3 ---- *)

\* C3: IsIn / IndexIn with an array-like value set of length > 0 whose type
\* differs from the comparison type of the (typed) probe fails with Invalid,
\* the message names both types, and nothing is passed on to the registry.
C3_MismatchRejected ==
    (/\ SetLookupEnded
     /\ TypedProbe
     /\ is_arraylike(ValueSet)
     /\ ValueSet.length > 0
     /\ ComparisonType(Probe) # ValueSet.type) =>
        /\ Returned
        /\ outcome.code = "Invalid"
        /\ Contains(outcome.message, ToString(ComparisonType(Probe)))
        /\ Contains(outcome.message, ToString(ValueSet.type))
        /\ invocations = <<>>

C3_Witness ==
    /\ SetLookupEnded
    /\ entry = "IndexIn"
    /\ Probe.type = Primitive("int8")
    /\ ValueSet.kind = "CHUNKED_ARRAY"
    /\ ValueSet.length > 0
    /\ ValueSet.type = Primitive("string")
    /\ outcome.code = "Invalid"

(* ---- C4 ---- *)

\* C4: IsIn / IndexIn with an array-like value set of length 0 passes
\* validation whatever the type of the probe, and the call is delegated
\* under is_in / index_in; the Result is the registry's, never an Invalid
\* of this layer.
C4_EmptyValueSetPasses ==
    (/\ SetLookupEnded
     /\ TypedProbe
     /\ is_arraylike(ValueSet)
     /\ ValueSet.length = 0) =>
        /\ Returned
        /\ Len(invocations) = 1
        /\ invocations[1].name = SetLookupName(entry)
        /\ outcome = ctx
        /\ outcome.code # "Invalid"

C4_Witness ==
    /\ SetLookupEnded
    /\ entry = "IsIn"
    /\ is_arraylike(ValueSet)
    /\ ValueSet.length = 0
    /\ ComparisonType(Probe) # ValueSet.type
    /\ Len(invocations) = 1
    /\ outcome.code = "OK"

(* ---- C5 ---- *)

\* C5: with a nonempty array-like value set, a Dictionary-typed probe
\* passes validation exactly when its decoded value type is the value set's
\* type: a value set typed as the dictionary type itself is rejected, one
\* typed as the index type (where that is not also the value type) is
\* rejected, one typed as the value type is accepted.  A probe of any other
\* type passes exactly when its own type is the value set's type.
C5_DictionaryComparesValueType ==
    (/\ SetLookupEnded
     /\ TypedProbe
     /\ is_arraylike(ValueSet)
     /\ ValueSet.length > 0) =>
        IF Probe.type \in DictionaryTypes
        THEN /\ Len(invocations) = 1 <=> Probe.type.value_type = ValueSet.type
             /\ Len(invocations) = 0 <=> RejectedByValidator
             /\ ValueSet.type = Probe.type => RejectedByValidator
             /\ (/\ ValueSet.type = Probe.type.index_type
                 /\ Probe.type.index_type # Probe.type.value_type) => RejectedByValidator
             /\ ValueSet.type = Probe.type.value_type => ~RejectedByValidator
        ELSE /\ Len(invocations) = 1 <=> Probe.type = ValueSet.type
             /\ Len(invocations) = 0 <=> RejectedByValidator

C5_Witness ==
    /\ SetLookupEnded
    /\ Probe.type = DictionaryOf(Primitive("int8"), Primitive("string"))
    /\ is_arraylike(ValueSet)
    /\ ValueSet.length > 0
    /\ ValueSet.type = Primitive("string")
    /\ Len(invocations) = 1

(* ---- C6 ---- *)

\* C6: IsIn / IndexIn with a value set that is not array-like fails with
\* Invalid for every probe, typed or not, whatever the value set's type and
\* length, and before anything else: nothing reaches the registry.
C6_NonArrayLikeRejected ==
    (SetLookupEnded /\ ~is_arraylike(ValueSet)) =>
        /\ Returned
        /\ outcome.code = "Invalid"
        /\ invocations = <<>>
        /\ outcome.message = <<"Set lookup value set must be Array or ChunkedArray">>

C6_Witness ==
    /\ SetLookupEnded
    /\ ValueSet.kind = "SCALAR"
    /\ ValueSet.type = ComparisonType(Probe)
    /\ outcome.code = "Invalid"

(* ---- C7 ---- *)

\* What the call just made did.
Observed == [invocations |-> invocations, outcome |-> outcome]

\* C7: the two-argument forms IsIn(values, value_set) and
\* IndexIn(values, value_set) end as the Options-taking forms can on the
\* Options record SetLookupOptions builds from that value set with its
\* other fields defaulted, and the other way round: the same error, or the
\* same registry call (name, arguments, options) and Result.
C7_ConvenienceFormEquivalent ==
    /\ (Ended /\ entry = "IsInValueSet") =>
           Observed \in IsIn(args[1], SetLookupOptionsDefault(args[2]), ctx)
    /\ (Ended /\ entry = "IndexInValueSet") =>
           Observed \in IndexIn(args[1], SetLookupOptionsDefault(args[2]), ctx)
    /\ (Ended /\ entry = "IsIn" /\ options = SetLookupOptionsDefault(options.value_set)) =>
           Observed \in IsInValueSet(args[1], options.value_set, ctx)
    /\ (Ended /\ entry = "IndexIn" /\ options = SetLookupOptionsDefault(options.value_set)) =>
           Observed \in IndexInValueSet(args[1], options.value_set, ctx)

C7_Witness ==
    /\ Returned
    /\ entry = "IsInValueSet"
    /\ Len(invocations) = 1
    /\ invocations[1].options = SetLookupOptionsDefault(args[2])
    /\ outcome.code = "OK"

(* ---- C8 ---- *)

\* C8: for every entry point, the Result returned after delegation is the
\* one the registry produced: a Datum, a NotFound or an ExecutionError comes
\* back unchanged.
C8_RegistryOutcomeUnchanged ==
    Delegated => outcome = ctx

C8_Witness ==
    /\ Delegated
    /\ entry = "IndexIn"
    /\ ctx = NotFound
    /\ outcome = NotFound

(* ---- C9 ---- *)

\* C9: a call makes at most one registry invocation; a set lookup that ends
\* with the validator's Invalid has made none; and every call that is over
\* has one terminal outcome, a Datum or an error.
C9_ValidateThenDelegateOnce ==
    /\ Len(invocations) <= 1
    /\ (SetLookupEnded /\ outcome.code = "Invalid") => Len(invocations) = 0
    /\ Ended =>
           /\ outcome.code \in {"OK", "Invalid", "KeyError", "ExecutionError"}
           /\ outcome.code = "OK" <=> outcome.value # NoDatum
           /\ outcome.code \in {"KeyError", "ExecutionError", "OK"} <=> Len(invocations) = 1

(* ---- C10 ---- *)

OptionsEntryPoints ==
    ArithmeticEntryPoints
        \cup {"ElementWiseMax", "ElementWiseMin", "IsIn", "IndexIn", "Compare"}

\* The name an Options-taking entry point is to resolve.
ResolvedName(e) ==
    CASE e \in ArithmeticEntryPoints ->
             IF options.check_overflow THEN CheckedName(e) ELSE BaseName(e)
      [] e = "ElementWiseMax" -> "element_wise_max"
      [] e = "ElementWiseMin" -> "element_wise_min"
      [] e \in {"IsIn", "IndexIn"} -> SetLookupName(e)
      [] e = "Compare" -> CanonicalName(options.op)

\* C10 as stated: every Options-taking entry point forwards the resolved
\* name, the caller's arguments and that same Options record.
C10_AllForwardOptions ==
    (Delegated /\ entry \in OptionsEntryPoints) =>
        /\ invocations[1].name = ResolvedName(entry)
        /\ invocations[1].args = args
        /\ invocations[1].options = options

\* C10 as amended: every Options-taking entry point forwards the resolved
\* name and the caller's arguments in order; ElementWiseMax, ElementWiseMin,
\* IsIn, IndexIn and Compare forward the caller's Options record unchanged,
\* the seven arithmetic entry points forward no Options record.
C10_ForwardingByEntryPoint ==
    (Delegated /\ entry \in OptionsEntryPoints) =>
        /\ invocations[1].name = ResolvedName(entry)
        /\ invocations[1].args = args
        /\ invocations[1].options =
               IF entry \in ArithmeticEntryPoints THEN NoOptions ELSE options

C10_Witness ==
    /\ Delegated
    /\ entry = "Add"
    /\ options = ArithmeticOptions(TRUE)
    /\ Len(args) = 2
    /\ invocations[1].name = "add_checked"
    /\ invocations[1].options = NoOptions

====
